---- MODULE Spec2Model ----
(***************************************************************************)
(* State-machine model of the causal propagation engine of polyverse:      *)
(*   src/lib/simulation/causal-engine-simple.ts  (createSimulationScenario)*)
(*   src/lib/simulation/propagation.ts           (propagateProbabilities)  *)
(*                                                                         *)
(* Numbers.  JavaScript doubles are modelled by exact fixed-point          *)
(* integers:                                                               *)
(*   - probabilities are integers in units of 1/PScale;                    *)
(*   - correlations and the generator's claimed strengths are integers in  *)
(*     tenths (0.5 is 5);                                                  *)
(*   - the strength of a validated result and of an edge is an integer in  *)
(*     twentieths (result.strength * 0.5 for claimed strength s tenths is  *)
(*     s twentieths, (|r| + s) / 2 is |r| + s twentieths).                 *)
(* PScale is chosen so that every product the builder and the propagation  *)
(* pass form on a graph of at most MAX_DEPTH layers is an exact integer.   *)
(***************************************************************************)
EXTENDS Integers, Sequences, FiniteSets, TLC

\* ------------------------------------------------------------------ bounds
\* number of markets of the available pool besides the trigger market
NMarkets == 4
\* an eager generator returns at most MaxExtra relationships more than the
\* cap of the layer they are for
MaxExtra == 1
\* largest params.maxDepth a caller passes
MaxDepthParam == 4
\* largest number of nodes, and of edges, of a graph handed directly to the
\* post-processing passes
PassNodes == 3
PassEdges == 3
\* largest number of points of a price series handed to alignPriceSeries
MaxSeriesLen == 3

\* ------------------------------------------------------- program constants
MAX_DEPTH == 3
MinPoints == 10
Cap1 == 3
Cap2 == 2
Cap3 == 1

\* hundredths, times one factor of twentieths per layer of propagation
PScale == 100 * 20 * 20 * 20
Hundredth == PScale \div 100
ClampLo == Hundredth
ClampHi == 99 * Hundredth

\* const TOLERANCE = 3600 (seconds)
TOLERANCE == 3600

TriggerId == 0
\* the available pool (route.ts passes every active market, the trigger
\* market among them); NMarkets + 1 is an id that is in no pool
PoolIds == 0..NMarkets
CandidateIds == 0..(NMarkets + 1)

VARIABLES pc, gen, maxDepth, trigPrior, triggerLen, nodes, edges,
          processedMarkets, marketsToProcess, currentMarket, currentLayer,
          ri, validatedResults, metadata, named, nGate, firstUnknown,
          nDown, outcomeOk, ret, given, expanded

vars == <<pc, gen, maxDepth, trigPrior, triggerLen, nodes, edges,
          processedMarkets, marketsToProcess, currentMarket, currentLayer,
          ri, validatedResults, metadata, named, nGate, firstUnknown,
          nDown, outcomeOk, ret, given, expanded>>

\* variant of getMaxNodesForLayer: one cap for every layer
getMaxNodesFlat(layer) == IF layer \in 1..3 THEN Cap1 ELSE 0

getMaxNodesForLayer(layer) ==
  IF layer = 1 THEN Cap1
  ELSE IF layer = 2 THEN Cap2
  ELSE IF layer = 3 THEN Cap3
  ELSE 0

\* ---------------------------------------------------------- input domains
\* The external collaborators of a run (relationship generator, price
\* provider, market pool) come in two kinds, fixed when the run starts:
\*   "eager": long relationship lists over a pool with complete and stable
\*            price data, any maxDepth -- every shape of graph the caps
\*            allow;
\*   "terse": short lists with any claimed strength, claimed direction,
\*            price data, correlation and market price, one layer deep.
Gens == {"eager", "terse"}
\* params.maxDepth
MaxDepthVals == IF gen = "eager" THEN 0..MaxDepthParam ELSE {0, 1}
\* price of the simulated outcome of the trigger market (units of 1/PScale)
TrigPriorVals ==
  IF gen = "eager" THEN {20 * Hundredth} ELSE {20 * Hundredth, 60 * Hundredth}
\* causalResults.length is at most ListBound
ListBound ==
  IF gen = "eager" THEN getMaxNodesForLayer(currentLayer + 1) + MaxExtra
  ELSE Cap3 + 1
\* outcomePrices[0] of a pool market (units of 1/PScale)
CurVals ==
  IF gen = "eager" THEN {30 * Hundredth}
  ELSE {5 * Hundredth, 30 * Hundredth, 97 * Hundredth}
\* value of calculateCorrelation on the trigger's and market id's aligned
\* series, in tenths; the price provider of an eager run is stable, so the
\* value is a property of the market: 0.5 and -0.8 alternate over the pool,
\* every fourth market has the weak correlation 0.3
RVals(id) ==
  IF gen = "eager"
    THEN {IF id % 4 = 0 THEN 3 ELSE IF id % 2 = 1 THEN 5 ELSE -8}
  ELSE {-10, -8, 1, 2, 5}
\* claimed strength of a candidate, in tenths
StrengthVals == IF gen = "eager" THEN {6} ELSE {4, 6, 9, 10}
Directions ==
  IF gen = "eager" THEN {"increase"} ELSE {"increase", "decrease"}
\* lengths of a price history the provider returns ([] when the fetch fails)
\* and numbers of aligned points
HistLens ==
  IF gen = "eager" THEN {MinPoints, MinPoints + 1}
  ELSE {0, MinPoints - 1, MinPoints, MinPoints + 1}
\* prices1.length when at least 10 points of the trigger's history and of
\* pool market id are paired by alignPriceSeries: every point of both for
\* the markets of even id, all but one for those of odd id
AlignedVals(id) == {IF id % 2 = 1 THEN MinPoints ELSE MinPoints + 1}
\* length of the trigger market's history
TriggerLens == IF gen = "eager" THEN {MinPoints + 1} ELSE {0, MinPoints + 1}
\* whether extractTokenId finds a token id for a pool market
TokenVals == IF gen = "eager" THEN {TRUE} ELSE BOOLEAN

\* ----------------------------------------------------------------- helpers
Abs(x) == IF x < 0 THEN -x ELSE x
Min2(a, b) == IF a < b THEN a ELSE b
Max2(a, b) == IF a > b THEN a ELSE b

\* x || 0.5
OrHalf(x) == IF x = 0 THEN PScale \div 2 ELSE x

\* variant of Clamp: no clamping
ClampNone(p) == p

\* Math.max(0.01, Math.min(0.99, p))
Clamp(p) == Max2(ClampLo, Min2(ClampHi, p))

\* (probabilityChange / currentProb) * 100, kept as the fraction <<num, den>>
PercentChange(change, cur) == <<change * 100, cur>>

\* absChange > 30 ? "high" : absChange > 10 ? "medium" : "low"
ImpactLevel(pct) ==
  IF Abs(pct[1]) > 30 * pct[2] THEN "high"
  ELSE IF Abs(pct[1]) > 10 * pct[2] THEN "medium"
  ELSE "low"

DirSign(d) == IF d = "increase" THEN 1 ELSE -1

NoCorrelation == [present |-> FALSE]

NoMetadata == [present |-> FALSE]

\* ------------------------------------------------- candidate validation
\* Math.abs(correlation) >= 0.20
hasStrongCorrelation(correlation) == Abs(correlation) >= 2

\* result.strength >= 0.5
hasHighConfidence(strength) == strength >= 5

\* variant of AcceptGate: either threshold is enough
AcceptGateEither(correlation, strength) ==
  hasStrongCorrelation(correlation) \/ hasHighConfidence(strength)

\* hasStrongCorrelation && hasHighConfidence
AcceptGate(correlation, strength) ==
  hasStrongCorrelation(correlation) /\ hasHighConfidence(strength)

\* variant of Downgraded: the claimed strength is kept whole
DowngradedWhole(cand) ==
  [marketId |-> cand.marketId, strength |-> 2 * cand.strength,
   impactDirection |-> cand.impactDirection, correlation |-> 0,
   hasHistoricalData |-> FALSE, claimedStrength |-> cand.strength,
   alignedPoints |-> 0]

\* { ...result, strength: result.strength * 0.5, hasHistoricalData: false }
\* (claimedStrength is a history field: the strength the generator claimed;
\* alignedPoints is a history field: prices1.length when a correlation was
\* computed, 0 otherwise)
Downgraded(cand) ==
  [marketId |-> cand.marketId, strength |-> cand.strength,
   impactDirection |-> cand.impactDirection, correlation |-> 0,
   hasHistoricalData |-> FALSE, claimedStrength |-> cand.strength,
   alignedPoints |-> 0]

\* variant of AcceptedStrength: the sum instead of the average
AcceptedStrengthSum(correlation, strength) ==
  2 * (Abs(correlation) + strength)

\* (Math.abs(correlation) + result.strength) / 2, in twentieths
AcceptedStrength(correlation, strength) == Abs(correlation) + strength

\* { ...result, correlation, hasHistoricalData: true, strength: average }
Accepted(cand, correlation, aligned) ==
  [marketId |-> cand.marketId,
   strength |-> AcceptedStrength(correlation, cand.strength),
   impactDirection |-> cand.impactDirection, correlation |-> correlation,
   hasHistoricalData |-> TRUE, claimedStrength |-> cand.strength,
   alignedPoints |-> aligned]

\* The records findInterestingCausalMarkets can return.  Market ids are
\* opaque strings the builder only compares with ===, so runs are enumerated
\* up to a renaming of the pool markets: a relationship names the trigger
\* market, a market outside the pool, a pool market named earlier in the run
\* or the least pool market not named yet (named counts the markets named).
CandidateIdsNow ==
  {id \in CandidateIds : id \notin PoolIds \/ id <= named + 1}

Candidates ==
  [marketId : CandidateIdsNow, strength : StrengthVals,
   impactDirection : Directions]

NamedAfter(id) == IF id \in PoolIds THEN Max2(named, id) ELSE named

\* variant of SkipsCandidate: a market missing from the pool is not skipped
SkipsProcessedOnly(id, processed) == id \in processed

\* variant of SkipsCandidate: the processed set is not consulted
SkipsUnknownOnly(id, processed) == id \notin PoolIds

\* const market = availableMarkets.find(m => m.id === result.marketId);
\* if (!market || processedMarkets.has(market.id)) continue;
SkipsCandidate(id, processed) == id \notin PoolIds \/ id \in processed

Init ==
  /\ pc = "start"
  /\ gen \in Gens
  /\ maxDepth \in MaxDepthVals
  /\ trigPrior \in TrigPriorVals
  /\ triggerLen = 0
  /\ nodes = << >>
  /\ edges = << >>
  /\ processedMarkets = {}
  /\ marketsToProcess = << >>
  /\ currentMarket = TriggerId
  /\ currentLayer = 0
  /\ ri = 0
  /\ validatedResults = << >>
  /\ metadata = NoMetadata
  /\ named = 0
  /\ nGate = 0
  /\ firstUnknown = 0
  /\ nDown = 0
  /\ outcomeOk \in BOOLEAN
  /\ ret = << >>
  /\ given = << >>
  /\ expanded = {}

\* variant of PassesOutcomeCheck: any label passes
PassesAnyOutcome(ok) == TRUE

\* route.ts line 43: triggerMarket.outcomes.includes(outcome)
PassesOutcomeCheck(ok) == ok

\* route.ts lines 43-49: the outcome is not one of the trigger market's
\* outcomes, the request is answered with status 400
RejectOutcome ==
  /\ pc = "start"
  /\ ~PassesOutcomeCheck(outcomeOk)
  /\ pc' = "rejected"
  /\ UNCHANGED <<gen, maxDepth, trigPrior, triggerLen, nodes, edges,
                 processedMarkets, marketsToProcess, currentMarket,
                 currentLayer, ri, validatedResults, metadata, named, nGate,
                 firstUnknown, nDown, outcomeOk, ret, given,
                 expanded>>

\* lines 64-103: trigger node, processed set, trigger price history, queue
TriggerNode ==
  [id |-> TriggerId,
   currentProbability |-> OrHalf(trigPrior),
   predictedProbability |-> PScale,
   probabilityChange |-> PScale - OrHalf(trigPrior),
   percentChange |-> <<100, 1>>,
   layer |-> 0,
   impactLevel |-> "high",
   incomingLinks |-> << >>,
   outgoingLinks |-> << >>]

CreateTrigger ==
  /\ pc = "start"
  /\ PassesOutcomeCheck(outcomeOk)
  /\ nodes' = <<TriggerNode>>
  /\ edges' = << >>
  /\ processedMarkets' = {TriggerId}
  /\ \E len \in TriggerLens : triggerLen' = len
  /\ marketsToProcess' = <<[market |-> TriggerId, layer |-> 0]>>
  /\ pc' = "loop"
  /\ UNCHANGED <<gen, maxDepth, trigPrior, currentMarket, currentLayer, ri,
                 validatedResults, metadata, named, nGate, firstUnknown,
                 nDown, outcomeOk, ret, given,
                 expanded>>

\* line 124: availableMarkets.filter(m => !processedMarkets.has(m.id)), the
\* pool the generator is given
OfferedPool(processed) == {m \in PoolIds : m \notin processed}

\* marketsToProcess.length > 0 && marketsToProcess[0].layer < MAX_DEPTH
LoopGuard ==
  /\ Len(marketsToProcess) > 0
  /\ marketsToProcess[1].layer < MAX_DEPTH

\* variant of Shift: the head is read but stays on the queue
ShiftNothing(queue) == queue

\* the queue after marketsToProcess.shift()
Shift(queue) == Tail(queue)

\* lines 114-143: shift the queue, ask the generator for relationships
\* history: expanded is the set of markets shifted off the queue so far
Dequeue ==
  /\ pc = "loop"
  /\ LoopGuard
  /\ currentMarket' = marketsToProcess[1].market
  /\ currentLayer' = marketsToProcess[1].layer
  /\ marketsToProcess' = Shift(marketsToProcess)
  /\ ri' = 0
  /\ validatedResults' = << >>
  /\ nGate' = 0
  /\ firstUnknown' = 0
  /\ nDown' = 0
  /\ expanded' = expanded \cup {marketsToProcess[1].market}
  /\ pc' = "validate"
  /\ UNCHANGED <<gen, maxDepth, trigPrior, triggerLen, nodes, edges,
                 processedMarkets, metadata, named, outcomeOk, ret, given>>

\* The relationships of causalResults are drawn one by one as the loop of
\* line 145 reaches them; ri counts the ones handled so far.
ValidateFrame ==
  UNCHANGED <<pc, gen, maxDepth, trigPrior, triggerLen, nodes, edges,
              processedMarkets, marketsToProcess, currentMarket,
              currentLayer, metadata, outcomeOk, ret, given,
                 expanded>>

\* history: position of the first relationship of the current list that
\* names a market outside the pool
FirstUnknownAfter(id) ==
  IF firstUnknown = 0 /\ id \notin PoolIds THEN ri + 1 ELSE firstUnknown

\* lines 146-147: unknown or already processed market, continue
ValidateSkip ==
  /\ pc = "validate"
  /\ ri < ListBound
  /\ \E cand \in Candidates :
       /\ SkipsCandidate(cand.marketId, processedMarkets)
       /\ named' = NamedAfter(cand.marketId)
       /\ firstUnknown' = FirstUnknownAfter(cand.marketId)
  /\ validatedResults' = validatedResults
  /\ nGate' = nGate
  /\ nDown' = nDown
  /\ ri' = ri + 1
  /\ ValidateFrame

\* history: nDown counts the relationships of the current list that lacked
\* price data (no token, short trigger series, short or failed fetch, short
\* alignment)
\* lines 152-163: no token id, or fewer than 10 trigger points
ValidateNoToken ==
  /\ pc = "validate"
  /\ ri < ListBound
  /\ \E cand \in Candidates, hasToken \in TokenVals :
       /\ ~SkipsCandidate(cand.marketId, processedMarkets)
       /\ ~hasToken \/ triggerLen < MinPoints
       /\ validatedResults' = Append(validatedResults, Downgraded(cand))
       /\ named' = NamedAfter(cand.marketId)
  /\ UNCHANGED <<nGate, firstUnknown,
                 expanded>>
  /\ nDown' = nDown + 1
  /\ ri' = ri + 1
  /\ ValidateFrame

\* lines 165-177: the market's own history has fewer than 10 points
ValidateShortHistory ==
  /\ pc = "validate"
  /\ ri < ListBound
  /\ triggerLen >= MinPoints
  /\ \E cand \in Candidates, marketLen \in HistLens :
       /\ ~SkipsCandidate(cand.marketId, processedMarkets)
       /\ marketLen < MinPoints
       /\ validatedResults' = Append(validatedResults, Downgraded(cand))
       /\ named' = NamedAfter(cand.marketId)
  /\ UNCHANGED <<nGate, firstUnknown,
                 expanded>>
  /\ nDown' = nDown + 1
  /\ ri' = ri + 1
  /\ ValidateFrame

\* lines 179-189: fewer than 10 aligned points
ValidateShortAligned ==
  /\ pc = "validate"
  /\ ri < ListBound
  /\ triggerLen >= MinPoints
  /\ \E cand \in Candidates, marketLen \in HistLens, aligned \in HistLens :
       /\ ~SkipsCandidate(cand.marketId, processedMarkets)
       /\ marketLen >= MinPoints
       /\ aligned <= Min2(triggerLen, marketLen)
       /\ aligned < MinPoints
       /\ validatedResults' = Append(validatedResults, Downgraded(cand))
       /\ named' = NamedAfter(cand.marketId)
  /\ UNCHANGED <<nGate, firstUnknown,
                 expanded>>
  /\ nDown' = nDown + 1
  /\ ri' = ri + 1
  /\ ValidateFrame

\* lines 191-215: correlation computed, accept or reject
\* history: nGate counts the relationships of the current list that had at
\* least 10 aligned points, |correlation| >= 0.20 and claimed strength >= 0.5
ValidateCorrelated ==
  /\ pc = "validate"
  /\ ri < ListBound
  /\ triggerLen >= MinPoints
  /\ \E cand \in Candidates, marketLen \in HistLens :
     \E correlation \in RVals(cand.marketId),
        aligned \in AlignedVals(cand.marketId) :
       /\ ~SkipsCandidate(cand.marketId, processedMarkets)
       /\ marketLen >= MinPoints
       /\ aligned <= Min2(triggerLen, marketLen)
       /\ aligned >= MinPoints
       /\ validatedResults' =
            IF AcceptGate(correlation, cand.strength)
              THEN Append(validatedResults, Accepted(cand, correlation, aligned))
              ELSE validatedResults
       /\ nGate' = IF Abs(correlation) >= 2 /\ cand.strength >= 5
                     THEN nGate + 1 ELSE nGate
       /\ named' = NamedAfter(cand.marketId)
  /\ firstUnknown' = firstUnknown
  /\ nDown' = nDown
  /\ ri' = ri + 1
  /\ ValidateFrame

\* ------------------------------------------------- sort, filter, truncate
\* (b.correlation || b.strength) - (a.correlation || a.strength): the key of
\* one operand, in twentieths (correlation 0 stands for 0 and for undefined)
SortKey(r) == IF r.correlation # 0 THEN 2 * r.correlation ELSE r.strength

RECURSIVE InsertSorted(_, _)
\* Array.prototype.sort is stable: x goes behind every element whose key is
\* not smaller than its own
InsertSorted(x, s) ==
  IF s = << >> THEN <<x>>
  ELSE IF SortKey(Head(s)) >= SortKey(x)
         THEN <<Head(s)>> \o InsertSorted(x, Tail(s))
         ELSE <<x>> \o s

RECURSIVE SortResults(_)
SortResults(s) ==
  IF s = << >> THEN << >>
  ELSE InsertSorted(s[Len(s)], SortResults(SubSeq(s, 1, Len(s) - 1)))

IsDataBacked(r) == r.hasHistoricalData

\* variant of SortedResults: the cap is applied before the sort
SortedResultsCapFirst(validated, maxForThisLayer) ==
  LET kept == SelectSeq(validated, IsDataBacked)
  IN  SortResults(SubSeq(kept, 1, Min2(maxForThisLayer, Len(kept))))

\* validatedResults.filter(hasHistoricalData).sort(...).slice(0, max)
SortedResults(validated, maxForThisLayer) ==
  LET kept == SortResults(SelectSeq(validated, IsDataBacked))
  IN  SubSeq(kept, 1, Min2(maxForThisLayer, Len(kept)))

\* ------------------------------------------------------- nodes and edges
\* variant of ChangeMagnitude: without the dampening factor
ChangeMagnitudeUndamped(correlation, triggerShock) ==
  (Abs(correlation) * triggerShock) \div 10

\* Math.abs(correlation) * triggerShock * 0.5
ChangeMagnitude(correlation, triggerShock) ==
  (Abs(correlation) * triggerShock) \div 20

\* result.strength * 0.10 (strength in twentieths)
FallbackMagnitude(strength) == (strength * PScale) \div 200

\* HIGH above 0.6, MEDIUM above 0.3, else LOW
ConfidenceOf(correlation) ==
  IF Abs(correlation) > 6 THEN "HIGH"
  ELSE IF Abs(correlation) > 3 THEN "MEDIUM"
  ELSE "LOW"

\* result.hasHistoricalData && result.correlation
IsBacked(result) == result.hasHistoricalData /\ result.correlation # 0

\* direction = result.impactDirection === 'increase' ? 1 : -1 (both branches)
NodeDirection(result) == DirSign(result.impactDirection)

\* edgeDirection, lines 299-301
EdgeDirection(result) ==
  IF IsBacked(result)
    THEN (IF result.correlation > 0 THEN "increase" ELSE "decrease")
    ELSE result.impactDirection

\* variant of ShouldEnqueue: the strength is not looked at
ShouldEnqueueAnyStrength(strength, layer) == layer + 1 < maxDepth

\* result.strength > 0.5 && currentLayer + 1 < params.maxDepth
ShouldEnqueue(strength, layer) == strength > 10 /\ layer + 1 < maxDepth

RECURSIVE FirstIndex(_, _, _)
\* nodes.find(n => n.market.id === id): the index of the first match, 0 if none
FirstIndex(ns, id, i) ==
  IF i > Len(ns) THEN 0
  ELSE IF ns[i].id = id THEN i
  ELSE FirstIndex(ns, id, i + 1)

\* variant of AdmitSkips: the processed set is not consulted
AdmitSkipsUnknownOnly(id, processed) == id \notin PoolIds

\* line 231: if (!market || processedMarkets.has(market.id)) continue;
AdmitSkips(id, processed) == id \notin PoolIds \/ id \in processed

\* one pass of the loop of lines 229-336 on the builder state st; the edge
\* carries two history fields, the direction and the strength the generator
\* claimed
AdmitResult(st, result, price) ==
  IF AdmitSkips(result.marketId, st.processed) THEN st
  ELSE
    LET layer == currentLayer + 1
        currentProb == OrHalf(price)
        triggerShock == PScale - OrHalf(trigPrior)
        changeMagnitude ==
          IF IsBacked(result)
            THEN ChangeMagnitude(result.correlation, triggerShock)
            ELSE FallbackMagnitude(result.strength)
        confidenceLevel ==
          IF IsBacked(result) THEN ConfidenceOf(result.correlation)
          ELSE "LOW"
        direction == NodeDirection(result)
        predictedProb == Clamp(currentProb + direction * changeMagnitude)
        probabilityChange == predictedProb - currentProb
        percentChange == PercentChange(probabilityChange, currentProb)
        edgeIndex == Len(st.edges) + 1
        node == [id |-> result.marketId,
                 currentProbability |-> currentProb,
                 predictedProbability |-> predictedProb,
                 probabilityChange |-> probabilityChange,
                 percentChange |-> percentChange,
                 layer |-> layer,
                 impactLevel |-> ImpactLevel(percentChange),
                 incomingLinks |-> <<edgeIndex>>,
                 outgoingLinks |-> << >>]
        edge == [sourceMarketId |-> currentMarket,
                 targetMarketId |-> result.marketId,
                 strength |-> result.strength,
                 direction |-> EdgeDirection(result),
                 confidenceLevel |-> confidenceLevel,
                 llmGenerated |-> ~result.hasHistoricalData,
                 historicalCorrelation |->
                   IF IsBacked(result)
                     THEN [present |-> TRUE,
                           marketId |-> result.marketId,
                           correlation |-> result.correlation,
                           confidence |-> Abs(result.correlation),
                           lagDays |-> 0,
                           sampleSize |-> triggerLen,
                           direction |-> IF result.correlation > 0
                                           THEN "positive" ELSE "negative"]
                     ELSE NoCorrelation,
                 claimedDirection |-> result.impactDirection,
                 claimedStrength |-> result.claimedStrength,
                 alignedPoints |-> result.alignedPoints]
        pushed == Append(st.nodes, node)
        src == FirstIndex(pushed, currentMarket, 1)
        linked ==
          IF src = 0 THEN pushed
          ELSE [pushed EXCEPT ![src].outgoingLinks = Append(@, edgeIndex)]
    IN  [nodes |-> linked,
         edges |-> Append(st.edges, edge),
         processed |-> st.processed \cup {result.marketId},
         queue |-> IF ShouldEnqueue(result.strength, currentLayer)
                     THEN Append(st.queue,
                                 [market |-> result.marketId,
                                  layer |-> currentLayer + 1])
                     ELSE st.queue]

RECURSIVE AdmitAll(_, _, _, _)
\* for (const result of sortedResults) ..., prices[i] the price of the i-th
AdmitAll(st, sorted, prices, i) ==
  IF i > Len(sorted) THEN st
  ELSE AdmitAll(AdmitResult(st, sorted[i], prices[i]), sorted, prices, i + 1)

\* lines 218-337: the end of the candidate list; sort, truncate, admit
BuildLayer ==
  /\ pc = "validate"
  /\ LET sorted == SortedResults(validatedResults,
                                 getMaxNodesForLayer(currentLayer + 1))
     IN  \E prices \in [1..Len(sorted) -> CurVals] :
           LET st == AdmitAll([nodes |-> nodes, edges |-> edges,
                               processed |-> processedMarkets,
                               queue |-> marketsToProcess],
                              sorted, prices, 1)
           IN  /\ nodes' = st.nodes
               /\ edges' = st.edges
               /\ processedMarkets' = st.processed
               /\ marketsToProcess' = st.queue
  /\ validatedResults' = << >>
  /\ pc' = "loop"
  /\ UNCHANGED <<gen, maxDepth, trigPrior, triggerLen, currentMarket,
                 currentLayer, ri, metadata, named, nGate, firstUnknown,
                 nDown, outcomeOk, ret, given,
                 expanded>>

\* ---------------------------------------------------------------- metadata
RECURSIVE SumAbsChange(_, _)
SumAbsChange(ns, i) ==
  IF i > Len(ns) THEN 0
  ELSE Abs(ns[i].probabilityChange) + SumAbsChange(ns, i + 1)

RECURSIVE MaxAbsChange(_, _)
MaxAbsChange(ns, i) ==
  IF i > Len(ns) THEN 0
  ELSE Max2(Abs(ns[i].probabilityChange), MaxAbsChange(ns, i + 1))

ConfidenceScoreOf(level) ==
  IF level = "HIGH" THEN 90 ELSE IF level = "MEDIUM" THEN 70 ELSE 50

RECURSIVE SumConfidence(_, _)
SumConfidence(es, i) ==
  IF i > Len(es) THEN 0
  ELSE ConfidenceScoreOf(es[i].confidenceLevel) + SumConfidence(es, i + 1)

RECURSIVE MaxLayer(_, _)
\* Math.max(...nodes.map(n => n.layer)) of a non-empty list
MaxLayer(ns, i) ==
  IF i = Len(ns) THEN ns[i].layer
  ELSE Max2(ns[i].layer, MaxLayer(ns, i + 1))

TimeHorizon(maxLayer) ==
  IF maxLayer >= 3 THEN "weeks"
  ELSE IF maxLayer >= 2 THEN "days"
  ELSE IF maxLayer >= 1 THEN "hours"
  ELSE "immediate"

\* variant of OrOne: the count is used as it is
OrOneNone(x) == x

\* x || 1
OrOne(x) == IF x = 0 THEN 1 ELSE x

\* lines 339-361; the two averages are kept as fractions <<sum, count>>
Metadata(ns, es) ==
  [present |-> TRUE,
   totalMarketsAffected |-> Len(ns) - 1,
   avgProbabilityShift |-> <<SumAbsChange(ns, 2), OrOne(Len(ns) - 1)>>,
   maxProbabilityShift |-> MaxAbsChange(ns, 2),
   confidenceScore |-> <<SumConfidence(es, 1), OrOne(Len(es))>>,
   timeHorizon |-> TimeHorizon(MaxLayer(ns, 1))]

\* the while loop ends; lines 339-385 return the scenario
Finish ==
  /\ pc = "loop"
  /\ ~LoopGuard
  /\ metadata' = Metadata(nodes, edges)
  /\ pc' = "done"
  /\ UNCHANGED <<gen, maxDepth, trigPrior, triggerLen, nodes, edges,
                 processedMarkets, marketsToProcess, currentMarket,
                 currentLayer, ri, validatedResults, named, nGate,
                 firstUnknown, nDown, outcomeOk, ret, given,
                 expanded>>

\* ------------------------------------------------ propagateProbabilities
RECURSIVE InsertByLayer(_, _, _)
\* stable ascending insertion of node index x into the index list s
InsertByLayer(ns, x, s) ==
  IF s = << >> THEN <<x>>
  ELSE IF ns[Head(s)].layer <= ns[x].layer
         THEN <<Head(s)>> \o InsertByLayer(ns, x, Tail(s))
         ELSE <<x>> \o s

RECURSIVE SortedOrder(_, _)
\* [...nodes].sort((a, b) => a.layer - b.layer), as indices into nodes
SortedOrder(ns, n) ==
  IF n = 0 THEN << >>
  ELSE InsertByLayer(ns, n, SortedOrder(ns, n - 1))

RECURSIVE FindSource(_, _, _, _)
\* sortedNodes.find(n => n.market.id === id), as an index into nodes, 0 if none
FindSource(ns, order, id, k) ==
  IF k > Len(order) THEN 0
  ELSE IF ns[order[k]].id = id THEN order[k]
  ELSE FindSource(ns, order, id, k + 1)

\* variant of ConfidenceWeight: every link weighs the same
ConfidenceWeightFlat(level) == 10

\* confidence weight, in tenths
ConfidenceWeight(level) ==
  IF level = "HIGH" THEN 10 ELSE IF level = "MEDIUM" THEN 7 ELSE 4

\* sourceShock * link.strength * direction
Influence(source, link) ==
  ((source.predictedProbability - source.currentProbability)
     * link.strength * DirSign(link.direction)) \div 20

RECURSIVE TotalInfluence(_, _, _, _)
\* <<totalInfluence, totalWeight>> over the incoming links from index k on
TotalInfluence(ns, order, links, k) ==
  IF k > Len(links) THEN <<0, 0>>
  ELSE LET rest == TotalInfluence(ns, order, links, k + 1)
           src == FindSource(ns, order, links[k].sourceMarketId, 1)
           w == ConfidenceWeight(links[k].confidenceLevel)
       IN  IF src = 0 THEN rest
           ELSE <<Influence(ns[src], links[k]) * w + rest[1], w + rest[2]>>

\* a / b rounded toward zero (exact whenever b divides a)
Quot(a, b) == IF a >= 0 THEN a \div b ELSE -((-a) \div b)

\* variant of PropagateNode: the influence is added to the predicted
\* probability the node already has
PropagateNodeFromPredicted(ns, es, order, i) ==
  LET node == ns[i]
      incomingLinks ==
        SelectSeq(es, LAMBDA e : e.targetMarketId = node.id)
      total == TotalInfluence(ns, order, incomingLinks, 1)
  IN  IF Len(incomingLinks) = 0 \/ total[2] <= 0 THEN ns
      ELSE LET avgInfluence == Quot(total[1], total[2])
               newProbability == Clamp(node.predictedProbability + avgInfluence)
               change == newProbability - node.currentProbability
               pct == PercentChange(change, node.currentProbability)
           IN  [ns EXCEPT ![i] =
                  [@ EXCEPT !.predictedProbability = newProbability,
                            !.probabilityChange = change,
                            !.percentChange = pct,
                            !.impactLevel = ImpactLevel(pct)]]

\* lines 22-69 for the node at index i
PropagateNode(ns, es, order, i) ==
  LET node == ns[i]
      incomingLinks ==
        SelectSeq(es, LAMBDA e : e.targetMarketId = node.id)
      total == TotalInfluence(ns, order, incomingLinks, 1)
  IN  IF Len(incomingLinks) = 0 \/ total[2] <= 0 THEN ns
      ELSE LET avgInfluence == Quot(total[1], total[2])
               newProbability == Clamp(node.currentProbability + avgInfluence)
               change == newProbability - node.currentProbability
               pct == PercentChange(change, node.currentProbability)
           IN  [ns EXCEPT ![i] =
                  [@ EXCEPT !.predictedProbability = newProbability,
                            !.probabilityChange = change,
                            !.percentChange = pct,
                            !.impactLevel = ImpactLevel(pct)]]

RECURSIVE PropagateLayer(_, _, _, _, _)
\* for (const node of layerNodes), in sorted order
PropagateLayer(ns, es, order, layer, k) ==
  IF k > Len(order) THEN ns
  ELSE IF ns[order[k]].layer = layer
         THEN PropagateLayer(PropagateNode(ns, es, order, order[k]),
                             es, order, layer, k + 1)
         ELSE PropagateLayer(ns, es, order, layer, k + 1)

RECURSIVE PropagateLayersDown(_, _, _, _, _)
\* variant of PropagateLayers: the layers are visited from maxLayer down
PropagateLayersDown(ns, es, order, layer, maxLayer) ==
  IF layer > maxLayer THEN ns
  ELSE PropagateLayersDown(PropagateLayer(ns, es, order, maxLayer, 1),
                           es, order, layer, maxLayer - 1)

RECURSIVE PropagateLayers(_, _, _, _, _)
\* for (let layer = 1; layer <= maxLayer; layer++)
PropagateLayers(ns, es, order, layer, maxLayer) ==
  IF layer > maxLayer THEN ns
  ELSE PropagateLayers(PropagateLayer(ns, es, order, layer, 1),
                       es, order, layer + 1, maxLayer)

\* variant of propagateProbabilities: the layer loop starts at layer 0
propagateFromLayerZero(ns, es) ==
  PropagateLayers(ns, es, SortedOrder(ns, Len(ns)), 0, MaxLayer(ns, 1))

\* the node objects after the pass, in the order of the input array (the
\* pass writes to the objects it was given)
propagateProbabilities(ns, es) ==
  PropagateLayers(ns, es, SortedOrder(ns, Len(ns)), 1, MaxLayer(ns, 1))

\* propagateProbabilities(nodes, edges): the node objects are written in
\* place, the sorted array of the same objects is returned
\* history: given is the value of the node objects when the pass was called
Propagate ==
  /\ pc = "done"
  /\ given' = nodes
  /\ nodes' = propagateProbabilities(nodes, edges)
  /\ ret' = LET order == SortedOrder(nodes, Len(nodes))
            IN  [k \in 1..Len(order) |-> nodes'[order[k]]]
  /\ pc' = "propagated"
  /\ UNCHANGED <<gen, maxDepth, trigPrior, triggerLen, edges, processedMarkets,
                 marketsToProcess, currentMarket, currentLayer, ri,
                 validatedResults, metadata, named, nGate, firstUnknown,
                 nDown, outcomeOk,
                 expanded>>

Next ==
  \/ RejectOutcome
  \/ CreateTrigger
  \/ Dequeue
  \/ ValidateSkip
  \/ ValidateNoToken
  \/ ValidateShortHistory
  \/ ValidateShortAligned
  \/ ValidateCorrelated
  \/ BuildLayer
  \/ Finish
  \/ Propagate

Spec == Init /\ [][Next]_vars

\* the steps of route.ts and createSimulationScenario up to the end of a
\* candidate list (the propagation pass is a separate call nobody is bound
\* to make)
BuilderStep ==
  \/ RejectOutcome
  \/ CreateTrigger
  \/ Dequeue
  \/ ValidateSkip
  \/ ValidateNoToken
  \/ ValidateShortHistory
  \/ ValidateShortAligned
  \/ ValidateCorrelated
  \/ Finish

\* the candidate list ends and the layer is built: the BuildLayer steps are
\* the steps of Next that take pc from "validate" to "loop", and BuildLayer
\* is enabled in every state with pc = "validate"
LayerEnds == pc = "validate" /\ pc' = "loop"

\* The run is one sequential async function: as long as every awaited call
\* (generator, price provider) returns, the next step of the run is taken.
FairSpec == Spec /\ WF_vars(BuilderStep) /\ WF_pc(LayerEnds)

\* ------------------------------------------ calculateConfidenceIntervals
\* variant of LinkConfidence: the weights of the propagation pass
LinkConfidenceAsWeight(level) ==
  IF level = "HIGH" THEN 10 ELSE IF level = "MEDIUM" THEN 7 ELSE 4

\* link confidence, in tenths
LinkConfidence(level) ==
  IF level = "HIGH" THEN 9 ELSE IF level = "MEDIUM" THEN 7 ELSE 5

RECURSIVE SumLinkConfidence(_, _)
\* incomingLinks.reduce((sum, link) => sum + conf, 0), in tenths
SumLinkConfidence(links, k) ==
  IF k > Len(links) THEN 0
  ELSE LinkConfidence(links[k].confidenceLevel)
         + SumLinkConfidence(links, k + 1)

\* node.layer * 0.05
LayerUncertainty(layer) == layer * 5 * Hundredth

\* (1 - avgConfidence) * 0.15, avgConfidence = sum / (length || 1)
ConfidenceUncertainty(links) ==
  LET count == OrOne(Len(links))
  IN  Quot((10 * count - SumLinkConfidence(links, 1)) * 15 * Hundredth,
           10 * count)

\* lines 98-113
TotalUncertainty(node, es) ==
  LET incomingLinks ==
        SelectSeq(es, LAMBDA e : e.targetMarketId = node.id)
  IN  LayerUncertainty(node.layer) + ConfidenceUncertainty(incomingLinks)

\* lines 84-119 for one node
Interval(node, es) ==
  IF node.layer = 0
    THEN [node |-> node,
          lower |-> node.predictedProbability,
          upper |-> node.predictedProbability]
    ELSE [node |-> node,
          lower |-> Max2(ClampLo, node.predictedProbability
                                    - TotalUncertainty(node, es)),
          upper |-> Min2(ClampHi, node.predictedProbability
                                    + TotalUncertainty(node, es))]

calculateConfidenceIntervals(ns, es) ==
  [i \in 1..Len(ns) |-> Interval(ns[i], es)]

\* -------------------------------------------------- detectFeedbackLoops
RECURSIVE IndexOf(_, _, _)
\* path.indexOf(id), 1-based, 0 for -1
IndexOf(path, id, i) ==
  IF i > Len(path) THEN 0
  ELSE IF path[i] = id THEN i
  ELSE IndexOf(path, id, i + 1)

\* variant of SliceFrom: the whole path
SliceWhole(path, loopStart) == path

\* path.slice(loopStart)
SliceFrom(path, loopStart) == SubSeq(path, loopStart, Len(path))

RECURSIVE dfs(_, _, _, _)
RECURSIVE VisitOutgoing(_, _, _, _, _)
\* lines 134-157; st holds visited, recursionStack and loops
dfs(es, nodeId, path, st) ==
  LET pushed == Append(path, nodeId)
      entered == [st EXCEPT !.visited = @ \cup {nodeId},
                            !.recursionStack = @ \cup {nodeId}]
      outgoing == SelectSeq(es, LAMBDA e : e.sourceMarketId = nodeId)
      left == VisitOutgoing(es, outgoing, 1, pushed, entered)
  IN  [left EXCEPT !.recursionStack = @ \ {nodeId}]

\* lines 142-154: for (const edge of outgoing), from index k on
VisitOutgoing(es, outgoing, k, path, st) ==
  IF k > Len(outgoing) THEN st
  ELSE
    LET targetId == outgoing[k].targetMarketId
        loopStart == IndexOf(path, targetId, 1)
        after ==
          IF targetId \notin st.visited THEN dfs(es, targetId, path, st)
          ELSE IF targetId \in st.recursionStack /\ loopStart # 0
            THEN [st EXCEPT !.loops = Append(@, SliceFrom(path, loopStart))]
          ELSE st
    IN  VisitOutgoing(es, outgoing, k + 1, path, after)

RECURSIVE StartFromEach(_, _, _, _)
\* lines 160-164: for (const node of nodes), from index i on
StartFromEach(ns, es, i, st) ==
  IF i > Len(ns) THEN st
  ELSE IF ns[i].id \notin st.visited
         THEN StartFromEach(ns, es, i + 1, dfs(es, ns[i].id, << >>, st))
         ELSE StartFromEach(ns, es, i + 1, st)

detectFeedbackLoops(ns, es) ==
  StartFromEach(ns, es, 1,
                [visited |-> {}, recursionStack |-> {}, loops |-> << >>]).loops

\* ----------------------------------------------- generateScenarioVariants
\* variant of VariantNode: layer 0 is treated like every other layer
VariantNodeAnyLayer(node, bound) ==
  [node EXCEPT
     !.predictedProbability = bound,
     !.probabilityChange = bound - node.currentProbability,
     !.percentChange =
       PercentChange(bound - node.currentProbability,
                     node.currentProbability)]

\* lines 183-190 and 196-203 for one node: { ...node, predictedProbability,
\* probabilityChange, percentChange } with the bound of its interval
VariantNode(node, bound) ==
  IF node.layer = 0 THEN node
  ELSE [node EXCEPT
          !.predictedProbability = bound,
          !.probabilityChange = bound - node.currentProbability,
          !.percentChange =
            PercentChange(bound - node.currentProbability,
                          node.currentProbability)]

\* variant of generateScenarioVariants: the two bounds exchanged
generateScenarioVariantsSwapped(ns, es) ==
  LET intervals == calculateConfidenceIntervals(ns, es)
  IN  [conservative |->
         [i \in 1..Len(ns) |-> VariantNode(ns[i], intervals[i].upper)],
       expected |-> ns,
       aggressive |->
         [i \in 1..Len(ns) |-> VariantNode(ns[i], intervals[i].lower)]]

generateScenarioVariants(ns, es) ==
  LET intervals == calculateConfidenceIntervals(ns, es)
  IN  [conservative |->
         [i \in 1..Len(ns) |-> VariantNode(ns[i], intervals[i].lower)],
       expected |-> ns,
       aggressive |->
         [i \in 1..Len(ns) |-> VariantNode(ns[i], intervals[i].upper)]]

\* ------------------------------------------------- the passes as actions
\* what a pass leaves alone besides nodes, ret and given
PassFrame ==
  UNCHANGED <<gen, maxDepth, trigPrior, triggerLen, edges, processedMarkets,
              marketsToProcess, currentMarket, currentLayer, ri,
              validatedResults, metadata, named, nGate, firstUnknown,
              nDown, outcomeOk,
                 expanded>>

ConfidenceIntervals ==
  /\ pc = "done"
  /\ given' = nodes
  /\ nodes' = nodes
  /\ ret' = calculateConfidenceIntervals(nodes, edges)
  /\ pc' = "intervals"
  /\ PassFrame

FeedbackLoops ==
  /\ pc = "done"
  /\ given' = nodes
  /\ nodes' = nodes
  /\ ret' = detectFeedbackLoops(nodes, edges)
  /\ pc' = "loops"
  /\ PassFrame

ScenarioVariants ==
  /\ pc = "done"
  /\ given' = nodes
  /\ nodes' = nodes
  /\ ret' = generateScenarioVariants(nodes, edges)
  /\ pc' = "variants"
  /\ PassFrame

\* ------------------------------------- graphs handed to the passes directly
\* The passes are exported functions of (nodes, edges); besides the graphs
\* the builder returns they are run on given graphs of three kinds:
\*   "fan":   every edge points at the last node, from another node, from the
\*            node itself or from a market that is not a node;
\*   "chain": edge j goes from node j to node j + 1;
\*   "shape": any edges among the nodes, uniform values.
PassKinds == {"fan", "chain", "shape"}

\* layer, current and predicted probability of a given node; predicted is
\* 1.0 for a trigger and within [0.01, 0.99] otherwise
PassProfiles ==
  {[layer |-> 0, cur |-> 20 * Hundredth, pred |-> PScale],
   [layer |-> 2, cur |-> 97 * Hundredth, pred |-> 99 * Hundredth],
   [layer |-> 1, cur |-> 5 * Hundredth, pred |-> 3 * Hundredth]}

\* profile of node i of a "shape" graph
ShapeProfile(i) ==
  IF i = 1 THEN [layer |-> 0, cur |-> 20 * Hundredth, pred |-> PScale]
  ELSE [layer |-> i - 1, cur |-> 30 * Hundredth, pred |-> 50 * Hundredth]

\* direction and confidence level of a given edge
PassStyles ==
  {<<"increase", "HIGH">>, <<"decrease", "MEDIUM">>, <<"increase", "LOW">>}

\* strength of a given edge, in twentieths
PassStrength == 7 + 7

\* node i of a given graph: market id i - 1; a layer-0 node has the
\* percentChange and impactLevel the builder gives a trigger node
PassNode(i, prof) ==
  [id |-> i - 1,
   currentProbability |-> prof.cur,
   predictedProbability |-> prof.pred,
   probabilityChange |-> prof.pred - prof.cur,
   percentChange |->
     IF prof.layer = 0 THEN TriggerNode.percentChange
     ELSE PercentChange(prof.pred - prof.cur, prof.cur),
   layer |-> prof.layer,
   impactLevel |->
     IF prof.layer = 0 THEN TriggerNode.impactLevel
     ELSE ImpactLevel(PercentChange(prof.pred - prof.cur, prof.cur)),
   incomingLinks |-> << >>,
   outgoingLinks |-> << >>]

PassEdge(source, target, style) ==
  [sourceMarketId |-> source,
   targetMarketId |-> target,
   strength |-> PassStrength,
   direction |-> style[1],
   confidenceLevel |-> style[2],
   llmGenerated |-> FALSE,
   historicalCorrelation |-> NoCorrelation]

\* sequences over S of length at most m
SeqUpTo(S, m) == UNION {[1..k -> S] : k \in 0..m}

PassNodeLists(n) ==
  IF gen = "shape" THEN {[i \in 1..n |-> PassNode(i, ShapeProfile(i))]}
  ELSE {[i \in 1..n |-> PassNode(i, f[i])] : f \in [1..n -> PassProfiles]}

\* n is not the id of a node of a graph of n nodes
PassEdgeLists(n) ==
  IF gen = "shape"
    THEN {[j \in 1..Len(q) |-> PassEdge(q[j][1], q[j][2], <<"increase", "MEDIUM">>)] :
            q \in SeqUpTo((0..(n - 1)) \X (0..(n - 1)), PassEdges)}
  ELSE IF gen = "chain"
    THEN {[j \in 1..Len(q) |-> PassEdge(j - 1, j, q[j])] :
            q \in SeqUpTo(PassStyles, n - 1)}
  ELSE {[j \in 1..Len(q) |->
           PassEdge(IF q[j][2] THEN (j - 1) % n ELSE n, n - 1, q[j][1])] :
          q \in SeqUpTo(PassStyles \X BOOLEAN, PassNodes - 1)}

PassInit ==
  /\ pc = "done"
  /\ gen \in PassKinds
  /\ trigPrior = 20 * Hundredth
  /\ \E n \in 1..PassNodes :
       /\ nodes \in PassNodeLists(n)
       /\ edges \in PassEdgeLists(n)
  /\ maxDepth = MAX_DEPTH
  /\ triggerLen = 0
  /\ processedMarkets = {}
  /\ marketsToProcess = << >>
  /\ currentMarket = TriggerId
  /\ currentLayer = 0
  /\ ri = 0
  /\ validatedResults = << >>
  /\ metadata = NoMetadata
  /\ named = 0
  /\ nGate = 0
  /\ firstUnknown = 0
  /\ nDown = 0
  /\ outcomeOk = TRUE
  /\ ret = << >>
  /\ given = << >>
  /\ expanded = {}

\* propagateProbabilities called on the node objects and edges of a graph it
\* has already been called on
PropagateAgain ==
  /\ pc = "propagated"
  /\ given' = nodes
  /\ nodes' = propagateProbabilities(nodes, edges)
  /\ ret' = LET order == SortedOrder(nodes, Len(nodes))
            IN  [k \in 1..Len(order) |-> nodes'[order[k]]]
  /\ pc' = "repropagated"
  /\ PassFrame

PassNext ==
  \/ Propagate
  \/ PropagateAgain
  \/ ConfidenceIntervals
  \/ FeedbackLoops
  \/ ScenarioVariants

PassSpec == PassInit /\ [][PassNext]_vars

\* ------------------------------------------------------ alignPriceSeries
\* timestamps (seconds) of the points of a price series: gaps below, at and
\* above the tolerance
TimeVals == {0, 1800, 3600, 9000}

\* the price (hundredths) of the i-th point of the first (which = 1) and of
\* the second (which = 2) series: every point has a price of its own
PriceOf(which, i) == IF which = 1 THEN i ELSE 50 + i

\* the PricePoint[] with the timestamps ts
SeriesOf(which, ts) ==
  [i \in 1..Len(ts) |-> [t |-> ts[i], p |-> PriceOf(which, i)]]

\* the timestamp lists of at most MaxSeriesLen points, in any order
TimeLists == UNION {[1..n -> TimeVals] : n \in 0..MaxSeriesLen}

\* variant of ByTime: latest first
ByTimeDescending(a, b) == b.t - a.t

\* the comparator (a, b) => a.t - b.t
ByTime(a, b) == a.t - b.t

RECURSIVE InsertByTime(_, _)
\* Array.prototype.sort is stable: x goes behind every point that the
\* comparator does not put after it
InsertByTime(x, s) ==
  IF s = << >> THEN <<x>>
  ELSE IF ByTime(Head(s), x) <= 0
         THEN <<Head(s)>> \o InsertByTime(x, Tail(s))
         ELSE <<x>> \o s

RECURSIVE SortByTime(_)
\* [...history].sort((a, b) => a.t - b.t)
SortByTime(h) ==
  IF h = << >> THEN << >>
  ELSE InsertByTime(h[Len(h)], SortByTime(SubSeq(h, 1, Len(h) - 1)))

\* Math.abs(t1 - t2) <= TOLERANCE
WithinTolerance(t1, t2) == Abs(t1 - t2) <= TOLERANCE

RECURSIVE MergeFrom(_, _, _, _, _)
\* the while loop of lines 120-137 from the positions i1, i2 (1-based) on
MergeFrom(sorted1, sorted2, i1, i2, out) ==
  IF ~(i1 <= Len(sorted1) /\ i2 <= Len(sorted2)) THEN out
  ELSE LET t1 == sorted1[i1].t
           t2 == sorted2[i2].t
       IN  IF WithinTolerance(t1, t2)
             THEN MergeFrom(sorted1, sorted2, i1 + 1, i2 + 1,
                    [prices1 |-> Append(out.prices1, sorted1[i1].p),
                     prices2 |-> Append(out.prices2, sorted2[i2].p),
                     timestamps |-> Append(out.timestamps, Min2(t1, t2))])
           ELSE IF t1 < t2
             THEN MergeFrom(sorted1, sorted2, i1 + 1, i2, out)
             ELSE MergeFrom(sorted1, sorted2, i1, i2 + 1, out)

alignPriceSeries(history1, history2) ==
  MergeFrom(SortByTime(history1), SortByTime(history2), 1, 1,
            [prices1 |-> << >>, prices2 |-> << >>, timestamps |-> << >>])

\* alignPriceSeries(history1, history2) for the two series in given
AlignSeries ==
  /\ pc = "series"
  /\ ret' = alignPriceSeries(given[1], given[2])
  /\ pc' = "aligned"
  /\ UNCHANGED <<gen, maxDepth, trigPrior, triggerLen, nodes, edges,
                 processedMarkets, marketsToProcess, currentMarket,
                 currentLayer, ri, validatedResults, metadata, named, nGate,
                 firstUnknown, nDown, outcomeOk, given, expanded>>

\* two price series are about to be aligned
AlignInit ==
  /\ pc = "series"
  /\ gen = "series"
  /\ \E ts1, ts2 \in TimeLists : given = <<SeriesOf(1, ts1), SeriesOf(2, ts2)>>
  /\ ret = << >>
  /\ maxDepth = MAX_DEPTH
  /\ trigPrior = 20 * Hundredth
  /\ triggerLen = 0
  /\ nodes = << >>
  /\ edges = << >>
  /\ processedMarkets = {}
  /\ marketsToProcess = << >>
  /\ currentMarket = TriggerId
  /\ currentLayer = 0
  /\ ri = 0
  /\ validatedResults = << >>
  /\ metadata = NoMetadata
  /\ named = 0
  /\ nGate = 0
  /\ firstUnknown = 0
  /\ nDown = 0
  /\ outcomeOk = TRUE
  /\ expanded = {}

AlignNext == AlignSeries

AlignSpec == AlignInit /\ [][AlignNext]_vars

\* ================================================================ claims
\* indices of the nodes at a layer, of the edges leaving a market
NodesAtLayer(l) == {i \in 1..Len(nodes) : nodes[i].layer = l}
EdgesFrom(id) == {k \in 1..Len(edges) : edges[k].sourceMarketId = id}
\* the builder is running or has returned; propagation has not run yet
Built == pc \in {"loop", "validate", "done"}
KeptResults == SelectSeq(validatedResults, IsDataBacked)

\* C1: no two nodes of the graph have the same market id, whatever the
\* generator returns (repeated ids, the trigger market, admitted markets).
C1_UniqueMarketIds ==
  \A i, j \in 1..Len(nodes) : i # j => nodes[i].id # nodes[j].id

\* C1 witness: the layer-1 list held two or more accepted relationships
\* within the cap, and only one of them became a node: the others named the
\* same market again and were skipped.
C1_Witness ==
  /\ pc = "loop"
  /\ currentLayer = 0
  /\ nGate \in 2..Cap1
  /\ Len(nodes) = 2

\* C2: at most 3 nodes at layer 1, at most 2 outgoing edges per layer-1
\* node, at most 1 outgoing edge per layer-2 node.
C2_PyramidFanOut ==
  /\ Cardinality(NodesAtLayer(1)) <= 3
  /\ \A i \in NodesAtLayer(1) : Cardinality(EdgesFrom(nodes[i].id)) <= 2
  /\ \A i \in NodesAtLayer(2) : Cardinality(EdgesFrom(nodes[i].id)) <= 1

\* C2 witness: four relationships passed validation for layer 1 and three
\* nodes were admitted.
C2_Witness ==
  /\ pc = "loop"
  /\ currentLayer = 0
  /\ nGate = Cap1 + 1
  /\ Cardinality(NodesAtLayer(1)) = Cap1

\* C3 (as claimed): a (market, layer) pair is expanded only when
\* layer < params.maxDepth, and no node has a layer above params.maxDepth.
C3_DepthWithinMaxDepth ==
  /\ pc = "validate" => currentLayer < maxDepth
  /\ \A i \in 1..Len(nodes) : nodes[i].layer <= maxDepth

\* C4: a relationship with at least 10 aligned points is accepted if and
\* only if |correlation| >= 0.20 and claimed strength >= 0.5 (the accepted
\* results of the current list are exactly the nGate relationships that met
\* both thresholds), and every edge of the graph comes from a relationship
\* that met both.
C4_AcceptIffBothThresholds ==
  /\ pc = "validate" => Len(KeptResults) = nGate
  /\ \A k \in 1..Len(KeptResults) :
       /\ Abs(KeptResults[k].correlation) >= 2
       /\ KeptResults[k].claimedStrength >= 5
  /\ \A k \in 1..Len(edges) :
       /\ edges[k].historicalCorrelation.present
       /\ Abs(edges[k].historicalCorrelation.correlation) >= 2
       /\ edges[k].claimedStrength >= 5
  /\ Len(nodes) <= Len(edges) + 1

\* C4 witness: two pool markets were correlated for layer 1 (neither skipped
\* nor downgraded), one met both thresholds and was accepted, the other
\* failed one and left no result.
C4_Witness ==
  /\ pc = "validate"
  /\ gen = "terse"
  /\ currentLayer = 0
  /\ ri = 2
  /\ named = 2
  /\ firstUnknown = 0
  /\ nGate = 1
  /\ Len(validatedResults) = 1
  /\ validatedResults[1].hasHistoricalData

\* C5 (as claimed): when more results are kept than the cap of the target
\* layer, no result cut off by the cap has a strictly larger |correlation|
\* than one inside the cap.
C5_LargestMagnitudeAdmitted ==
  pc = "validate" =>
    LET sorted == SortResults(KeptResults)
        cap == getMaxNodesForLayer(currentLayer + 1)
    IN  \A i, j \in 1..Len(sorted) :
          (i <= cap /\ j > cap) =>
            Abs(sorted[j].correlation) <= Abs(sorted[i].correlation)

\* C6 (as claimed): for a node admitted with correlation r, the predicted
\* probability moves with sign(r) and the incoming edge records the same
\* direction.
C6_DirectionFollowsCorrelation ==
  Built =>
    \A k \in 1..Len(edges) : \A i \in 1..Len(nodes) :
      (nodes[i].id = edges[k].targetMarketId
         /\ edges[k].historicalCorrelation.present) =>
        LET r == edges[k].historicalCorrelation.correlation
        IN  /\ r > 0 =>
                 /\ nodes[i].predictedProbability >= nodes[i].currentProbability
                 /\ edges[k].direction = "increase"
            /\ r < 0 =>
                 /\ nodes[i].predictedProbability <= nodes[i].currentProbability
                 /\ edges[k].direction = "decrease"

\* C7: for every admitted node, at any layer, the predicted probability is
\* the current probability moved by |r| * shock * 0.5 (then clamped), with
\* shock = 1 - the trigger market's prior of the simulated outcome; the
\* recorded change, percent change and impact level follow from it.
C7_MagnitudeFromTriggerShock ==
  Built =>
    \A k \in 1..Len(edges) : \A i \in 1..Len(nodes) :
      nodes[i].id = edges[k].targetMarketId =>
        LET r == edges[k].historicalCorrelation.correlation
            shock == PScale - trigPrior
            magnitude == (Abs(r) * shock) \div 20
            cur == nodes[i].currentProbability
            pred == nodes[i].predictedProbability
        IN  /\ 20 * magnitude = Abs(r) * shock
            /\ \/ pred = Max2(ClampLo, Min2(ClampHi, cur + magnitude))
               \/ pred = Max2(ClampLo, Min2(ClampHi, cur - magnitude))
            /\ nodes[i].probabilityChange = pred - cur
            /\ nodes[i].percentChange = <<(pred - cur) * 100, cur>>

\* C7 witness: the worked example at layer 3 -- trigger prior 0.20, r = 0.50,
\* current 0.30: predicted 0.50, percent change 66.7 (to one decimal),
\* impact level high.
C7_Witness ==
  /\ pc = "done"
  /\ trigPrior = 20 * Hundredth
  /\ \E k \in 1..Len(edges) : \E i \in 1..Len(nodes) :
       /\ nodes[i].id = edges[k].targetMarketId
       /\ nodes[i].layer = 3
       /\ edges[k].historicalCorrelation.correlation = 5
       /\ nodes[i].currentProbability = 30 * Hundredth
       /\ nodes[i].predictedProbability = 50 * Hundredth
       /\ nodes[i].probabilityChange = 20 * Hundredth
       /\ 2 * Abs(10 * nodes[i].percentChange[1]
                    - 667 * nodes[i].percentChange[2])
            <= nodes[i].percentChange[2]
       /\ nodes[i].impactLevel = "high"

\* C8: every non-trigger node's predictedProbability is in [0.01, 0.99],
\* in the graph the builder returns and after propagateProbabilities.
C8_PredictedWithinClamp ==
  \A i \in 1..Len(nodes) :
    nodes[i].layer # 0 =>
      /\ 100 * nodes[i].predictedProbability >= PScale
      /\ 100 * nodes[i].predictedProbability <= 99 * PScale

\* C8 witness: after propagation one node sits on the upper bound and one
\* on the lower bound.
C8_Witness ==
  /\ pc = "propagated"
  /\ \E i, j \in 1..Len(nodes) :
       /\ nodes[i].layer # 0
       /\ nodes[j].layer # 0
       /\ 100 * nodes[i].predictedProbability = 99 * PScale
       /\ nodes[i].currentProbability < nodes[i].predictedProbability
       /\ 100 * nodes[j].predictedProbability = PScale
       /\ nodes[j].currentProbability > nodes[j].predictedProbability

\* C9: every edge's strength is the average of |correlation| and the claimed
\* strength (in twentieths: their sum), and lies in [0, 1] when the claimed
\* strength does.
C9_EdgeStrengthIsAverage ==
  \A k \in 1..Len(edges) :
    /\ edges[k].strength =
         Abs(edges[k].historicalCorrelation.correlation)
           + edges[k].claimedStrength
    /\ edges[k].claimedStrength \in 0..10 =>
         (edges[k].strength >= 0 /\ edges[k].strength <= 20)

\* C9 witness: an edge of strength exactly 1 (|r| = 1, claimed strength 1).
C9_Witness ==
  /\ pc = "done"
  /\ \E k \in 1..Len(edges) :
       /\ edges[k].strength = 20
       /\ edges[k].claimedStrength = 10

\* C10: the trigger node is present at layer 0 with predictedProbability
\* 1.0, every edge's source and target is the market of a node, and a
\* relationship naming a market outside the pool leaves no validated result,
\* no node and no edge.
C10_ClosedGraphWithTrigger ==
  /\ pc \notin {"start", "rejected"} =>
       /\ Len(nodes) >= 1
       /\ nodes[1].id = TriggerId
       /\ nodes[1].layer = 0
       /\ nodes[1].predictedProbability = PScale
  /\ \A k \in 1..Len(edges) :
       /\ \E i \in 1..Len(nodes) : nodes[i].id = edges[k].sourceMarketId
       /\ \E i \in 1..Len(nodes) : nodes[i].id = edges[k].targetMarketId
       /\ edges[k].targetMarketId \in PoolIds
  /\ \A i \in 1..Len(nodes) : nodes[i].id \in PoolIds
  /\ \A k \in 1..Len(validatedResults) :
       validatedResults[k].marketId \in PoolIds

\* C10 witness: the first relationship of the layer-1 list named a market
\* outside the pool, and relationships behind it became nodes.
C10_Witness ==
  /\ pc = "loop"
  /\ currentLayer = 0
  /\ firstUnknown = 1
  /\ Len(nodes) >= 3
  /\ Len(edges) = Len(nodes) - 1

\* C11: missing price data never aborts a run: every relationship of the
\* current list that lacked price data is in validatedResults with its
\* strength halved (in twentieths: the claimed tenths) and
\* hasHistoricalData = false, and the run stays on its way to returning a
\* scenario (validation goes on, there is no error state).
C11_MissingDataDowngrades ==
  /\ pc \in {"start", "rejected", "loop", "validate", "done", "propagated"}
  /\ pc = "validate" =>
       LET down == SelectSeq(validatedResults, LAMBDA r : ~IsDataBacked(r))
       IN  /\ Len(down) = nDown
           /\ \A k \in 1..Len(down) :
                /\ 2 * 10 * down[k].strength = 20 * down[k].claimedStrength
                /\ down[k].correlation = 0
  /\ nDown > 0 => pc \in {"validate", "loop", "done", "propagated"}

\* C11 witness: the run returned a scenario although the first relationship
\* of the trigger's list lacked price data, and a relationship after it was
\* validated and became a node.
C11_Witness ==
  /\ pc = "done"
  /\ metadata.present
  /\ nDown = 1
  /\ ri = 2
  /\ nGate = 1
  /\ Len(nodes) = 2

\* C12: when the requested outcome is not among the trigger market's
\* outcomes the request is rejected and nothing was built: no trigger node,
\* no trigger price history, no queue entry, no generator call.
C12_InvalidOutcomeBuildsNothing ==
  ~outcomeOk =>
    /\ pc \in {"start", "rejected"}
    /\ nodes = << >>
    /\ edges = << >>
    /\ processedMarkets = {}
    /\ triggerLen = 0
    /\ marketsToProcess = << >>
    /\ ri = 0
    /\ ~metadata.present

\* C12 witness: a request with an unknown outcome label was rejected.
C12_Witness ==
  /\ pc = "rejected"
  /\ ~outcomeOk
  /\ nodes = << >>

\* C13: when no candidate is admitted at layer 1 the returned graph is the
\* trigger node alone with no edges, and the metadata are
\* totalMarketsAffected = 0, avgProbabilityShift = 0 / 1,
\* maxProbabilityShift = 0, confidenceScore = 0 / 1, timeHorizon
\* 'immediate'; no average is ever taken over a zero count.
C13_TriggerOnlyMetadata ==
  pc \in {"done", "propagated"} =>
    /\ metadata.present
    /\ metadata.avgProbabilityShift[2] # 0
    /\ metadata.confidenceScore[2] # 0
    /\ Len(nodes) = 1 =>
         /\ nodes[1].id = TriggerId
         /\ nodes[1].layer = 0
         /\ edges = << >>
         /\ metadata.totalMarketsAffected = 0
         /\ metadata.avgProbabilityShift = <<0, 1>>
         /\ metadata.maxProbabilityShift = 0
         /\ metadata.confidenceScore = <<0, 1>>
         /\ metadata.timeHorizon = "immediate"

\* C13 witness: the generator returned two relationships for the trigger,
\* none passed validation with data, and the scenario was returned.
C13_Witness ==
  /\ pc = "done"
  /\ ri = 2
  /\ nGate = 0
  /\ Len(nodes) = 1
  /\ metadata.totalMarketsAffected = 0

\* ---- helpers for the claims about the passes (given = the nodes as passed)
\* indices of the edges pointing at node i
IncomingOf(i) == {k \in 1..Len(edges) : edges[k].targetMarketId = given[i].id}
\* indices of the nodes that are the source of edge k (none if not a node)
SourcesOf(k) == {j \in 1..Len(given) : given[j].id = edges[k].sourceMarketId}
\* the edges pointing at node i whose source is a node
LiveIncomingOf(i) == {k \in IncomingOf(i) : SourcesOf(k) # {}}
\* node j is recomputed before node i in the layer-by-layer order
RecomputedBefore(j, i) ==
  /\ given[j].layer >= 1
  /\ \/ given[j].layer < given[i].layer
     \/ given[j].layer = given[i].layer /\ j < i
RECURSIVE SumOver(_, _, _)
\* sum of f[x] over the finite set S
SumOver(S, f, acc) ==
  IF S = {} THEN acc
  ELSE LET x == CHOOSE y \in S : TRUE
       IN  SumOver(S \ {x}, f, acc + f[x])

\* C14: propagateProbabilities leaves every field unchanged of every layer-0
\* node, of every node without incoming edges and of every node none of
\* whose incoming edges has its source among the nodes.
C14_PropagationFrame ==
  pc = "propagated" =>
    /\ Len(nodes) = Len(given)
    /\ \A i \in 1..Len(given) :
         (given[i].layer = 0 \/ LiveIncomingOf(i) = {}) =>
           nodes[i] = given[i]

\* C14 witness: a layer-0 node with an incoming edge from a node whose
\* predicted and current probability differ, and a node of layer >= 1 with
\* no incoming edge, both unchanged while another node was recomputed.
C14_Witness ==
  /\ pc = "propagated"
  /\ \E i, j, c \in 1..Len(given) :
       /\ given[i].layer = 0
       /\ \E k \in LiveIncomingOf(i) : \E h \in SourcesOf(k) :
            given[h].predictedProbability # given[h].currentProbability
       /\ nodes[i] = given[i]
       /\ given[j].layer >= 1
       /\ IncomingOf(j) = {}
       /\ nodes[j] = given[j]
       /\ nodes[c] # given[c]

\* C15: every node of layer >= 1 with an incoming edge from a node gets
\* predicted = clamp(current + sum(w * shock * strength * dir) / sum(w)),
\* w = 1.0 / 0.7 / 0.4 by confidence level, dir = +1 / -1, shock = predicted
\* - current of the source as it is when the node is recomputed (already
\* recomputed sources of lower layers, the passed value otherwise); up to
\* two units of 1/PScale of rounding.
C15_WeightedAverage ==
  pc = "propagated" =>
    \A i \in 1..Len(given) :
      (given[i].layer >= 1 /\ LiveIncomingOf(i) # {}) =>
        LET W(level) == CASE level = "HIGH" -> 10
                          [] level = "MEDIUM" -> 7
                          [] OTHER -> 4
            Src(k) == CHOOSE j \in SourcesOf(k) : TRUE
            Shock(k) ==
              IF RecomputedBefore(Src(k), i)
                THEN nodes[Src(k)].predictedProbability
                       - nodes[Src(k)].currentProbability
                ELSE given[Src(k)].predictedProbability
                       - given[Src(k)].currentProbability
            Term == [k \in LiveIncomingOf(i) |->
                       W(edges[k].confidenceLevel) * Shock(k)
                         * edges[k].strength
                         * (IF edges[k].direction = "increase" THEN 1 ELSE -1)]
            Weight == [k \in LiveIncomingOf(i) |->
                         W(edges[k].confidenceLevel)]
            num == SumOver(LiveIncomingOf(i), Term, 0)
            den == 20 * SumOver(LiveIncomingOf(i), Weight, 0)
            cur == given[i].currentProbability
            low == Max2(ClampLo, Min2(ClampHi, cur + (num \div den) - 1))
            high == Max2(ClampLo, Min2(ClampHi, cur + (num \div den) + 2))
        IN  /\ nodes[i].predictedProbability >= low
            /\ nodes[i].predictedProbability <= high
            /\ nodes[i].currentProbability = cur
            /\ nodes[i].probabilityChange
                 = nodes[i].predictedProbability - cur

\* C15 witness: a node with two parents of different confidence levels got
\* a new predicted probability strictly inside the clamp range.
C15_Witness ==
  /\ pc = "propagated"
  /\ \E i \in 1..Len(given) :
       /\ given[i].layer >= 1
       /\ \E k, h \in LiveIncomingOf(i) :
            /\ edges[k].confidenceLevel # edges[h].confidenceLevel
            /\ edges[k].direction # edges[h].direction
            /\ SourcesOf(k) # SourcesOf(h)
       /\ nodes[i].predictedProbability # given[i].predictedProbability
       /\ nodes[i].predictedProbability > ClampLo
       /\ nodes[i].predictedProbability < ClampHi

\* C16 (as claimed): no pass changes a field of the node objects it was
\* passed.
C16_PassesLeaveInput ==
  pc \in {"propagated", "intervals", "loops", "variants"} => nodes = given

\* C17: calculateConfidenceIntervals gives a layer-0 node lower = upper =
\* predicted, and a node of another layer with k >= 1 incoming edges
\* lower = max(0.01, predicted - u), upper = min(0.99, predicted + u),
\* u = layer * 0.05 + (1 - a) * 0.15, a the mean of 0.9 / 0.7 / 0.5 over
\* its incoming edges.
C17_ConfidenceIntervals ==
  pc = "intervals" =>
    /\ Len(ret) = Len(nodes)
    /\ \A i \in 1..Len(nodes) :
         LET k == Cardinality(IncomingOf(i))
             nHigh == Cardinality({e \in IncomingOf(i) :
                                     edges[e].confidenceLevel = "HIGH"})
             nMedium == Cardinality({e \in IncomingOf(i) :
                                       edges[e].confidenceLevel = "MEDIUM"})
             nLow == k - nHigh - nMedium
             \* 10 * k * u, in units of 1/PScale
             u10k == 10 * k * nodes[i].layer * 5 * Hundredth
                       + (10 * k - (9 * nHigh + 7 * nMedium + 5 * nLow))
                           * 15 * Hundredth
             pred == nodes[i].predictedProbability
         IN  /\ ret[i].node = nodes[i]
             /\ nodes[i].layer = 0 =>
                  (ret[i].lower = pred /\ ret[i].upper = pred)
             /\ (nodes[i].layer # 0 /\ k = 0) =>
                  \* no incoming edge: the mean is taken as 0
                  /\ ret[i].lower
                       = Max2(ClampLo, pred - (nodes[i].layer * 5 + 15) * Hundredth)
                  /\ ret[i].upper
                       = Min2(ClampHi, pred + (nodes[i].layer * 5 + 15) * Hundredth)
             /\ (nodes[i].layer # 0 /\ k >= 1) =>
                  /\ u10k % (10 * k) = 0
                  /\ ret[i].lower = Max2(ClampLo, pred - u10k \div (10 * k))
                  /\ ret[i].upper = Min2(ClampHi, pred + u10k \div (10 * k))

\* C17 witness: a layer-0 node with a zero-width interval next to a layer-2
\* node with a HIGH and a LOW incoming edge whose lower bound is not
\* clamped and whose upper bound is.
C17_Witness ==
  /\ pc = "intervals"
  /\ \E i, j \in 1..Len(nodes) :
       /\ nodes[i].layer = 0
       /\ ret[i].lower = ret[i].upper
       /\ nodes[j].layer = 2
       /\ \E k, h \in IncomingOf(j) :
            /\ edges[k].confidenceLevel = "HIGH"
            /\ edges[h].confidenceLevel = "LOW"
       /\ ret[j].lower > ClampLo
       /\ ret[j].lower < nodes[j].predictedProbability
       /\ ret[j].upper = ClampHi

\* C18: for every node with predicted > current the variants satisfy
\* aggressive >= expected >= conservative on predictedProbability.
C18_VariantOrder ==
  pc = "variants" =>
    \A i \in 1..Len(nodes) :
      nodes[i].predictedProbability > nodes[i].currentProbability =>
        /\ ret.aggressive[i].predictedProbability
             >= ret.expected[i].predictedProbability
        /\ ret.expected[i].predictedProbability
             >= ret.conservative[i].predictedProbability

\* C18 witness: a non-trigger node with a positive predicted change whose
\* three variants are strictly ordered.
C18_Witness ==
  /\ pc = "variants"
  /\ \E i \in 1..Len(nodes) :
       /\ nodes[i].layer >= 1
       /\ nodes[i].predictedProbability > nodes[i].currentProbability
       /\ ret.aggressive[i].predictedProbability
            > ret.expected[i].predictedProbability
       /\ ret.expected[i].predictedProbability
            > ret.conservative[i].predictedProbability

\* C19: in the variants the trigger (layer-0) node has the same
\* predictedProbability, probabilityChange and percentChange in all three
\* sets, and the expected set is the input node set, unmodified.
C19_TriggerAndExpectedUntouched ==
  pc = "variants" =>
    /\ ret.expected = given
    /\ nodes = given
    /\ \A i \in 1..Len(given) :
         given[i].layer = 0 =>
           \A v \in {ret.conservative[i], ret.aggressive[i]} :
             /\ v.predictedProbability = ret.expected[i].predictedProbability
             /\ v.probabilityChange = ret.expected[i].probabilityChange
             /\ v.percentChange = ret.expected[i].percentChange

\* C19 witness: variants of a graph with a trigger node and a node whose
\* conservative and aggressive values differ from the expected ones.
C19_Witness ==
  /\ pc = "variants"
  /\ \E i, j \in 1..Len(given) :
       /\ given[i].layer = 0
       /\ given[i].predictedProbability = PScale
       /\ ret.conservative[i] = given[i]
       /\ given[j].layer >= 1
       /\ ret.conservative[j].percentChange # given[j].percentChange
       /\ ret.aggressive[j].probabilityChange # given[j].probabilityChange

\* ---- helpers for C20
EdgePairs == {<<edges[k].sourceMarketId, edges[k].targetMarketId>> :
                k \in 1..Len(edges)}
NodeIds == {nodes[i].id : i \in 1..Len(nodes)}
RECURSIVE PathPairs(_, _)
\* pairs joined by a path of at least one edge (k rounds of doubling)
PathPairs(R, k) ==
  IF k = 0 THEN R
  ELSE PathPairs(R \cup {<<pq[1][1], pq[2][2]>> :
                            pq \in {x \in R \X R : x[1][2] = x[2][1]}},
                 k - 1)
HasCycle == \E v \in NodeIds : <<v, v>> \in PathPairs(EdgePairs, Len(nodes))
IsCycle(loop) ==
  /\ Len(loop) >= 1
  /\ \A k \in 1..(Len(loop) - 1) : <<loop[k], loop[k + 1]>> \in EdgePairs
  /\ <<loop[Len(loop)], loop[1]>> \in EdgePairs

\* C20: for a node set closed under edge endpoints detectFeedbackLoops
\* returns a non-empty list iff the edges contain a directed cycle
\* (self-loops included), and every loop returned is a real cycle.
C20_LoopsAreCycles ==
  pc = "loops" =>
    /\ (\A p \in EdgePairs : p[1] \in NodeIds /\ p[2] \in NodeIds) =>
         ((ret # << >>) <=> HasCycle)
    /\ \A k \in 1..Len(ret) : IsCycle(ret[k])

\* C20 witness: a cycle of two markets was reported by a search that
\* entered it from a third market outside the cycle.
C20_Witness ==
  /\ pc = "loops"
  /\ gen = "shape"
  /\ Len(edges) = 3
  /\ \E k \in 1..Len(ret) :
       /\ Len(ret[k]) = 2
       /\ ret[k][1] # nodes[1].id
       /\ ret[k][2] # nodes[1].id
       /\ IsCycle(ret[k])

\* ---- helpers for the claims about alignPriceSeries
\* the timestamps of a series, in the order of the series
TimesOf(h) == [i \in 1..Len(h) |-> h[i].t]
\* the series is ordered by time
TimeOrdered(h) == \A i \in 1..(Len(h) - 1) : h[i].t <= h[i + 1].t
\* the point of series which (given[which]) that has the price p
PointOf(which, p) == given[which][p - PriceOf(which, 0)]

\* C21 (as claimed): the three outputs have the same length, no timestamp
\* occurs twice among the returned timestamps, the matched points are in the
\* time order of both inputs, and an empty input gives three empty outputs.
C21_AlignedOutputs ==
  pc = "aligned" =>
    LET n == Len(ret.timestamps) IN
    /\ Len(ret.prices1) = n
    /\ Len(ret.prices2) = n
    /\ \A k, l \in 1..n : k # l => ret.timestamps[k] # ret.timestamps[l]
    /\ \A k, l \in 1..n :
         k < l =>
           /\ PointOf(1, ret.prices1[k]).t <= PointOf(1, ret.prices1[l]).t
           /\ PointOf(2, ret.prices2[k]).t <= PointOf(2, ret.prices2[l]).t
           /\ ret.prices1[k] # ret.prices1[l]
           /\ ret.prices2[k] # ret.prices2[l]
    /\ (given[1] = << >> \/ given[2] = << >>) => n = 0

\* C22: when the two series have the same timestamp sequence the output has
\* the original length and pairs the i-th point of the first series with
\* the i-th point of the second; for series ordered by time the output is in
\* the order of the input.
C22_AlignedInputKept ==
  (pc = "aligned" /\ TimesOf(given[1]) = TimesOf(given[2])) =>
    LET n == Len(given[1]) IN
    /\ Len(ret.prices1) = n
    /\ Len(ret.prices2) = n
    /\ Len(ret.timestamps) = n
    /\ \A k \in 1..n :
         /\ ret.prices1[k] - PriceOf(1, 0) = ret.prices2[k] - PriceOf(2, 0)
         /\ ret.timestamps[k] = PointOf(1, ret.prices1[k]).t
    /\ TimeOrdered(given[1]) =>
         /\ ret.prices1 = [k \in 1..n |-> given[1][k].p]
         /\ ret.prices2 = [k \in 1..n |-> given[2][k].p]
         /\ ret.timestamps = TimesOf(given[1])

\* C22 witness: two series of MaxSeriesLen points on the same, ordered
\* timestamps, with one gap inside and one gap outside the tolerance, were
\* aligned.
C22_Witness ==
  /\ pc = "aligned"
  /\ Len(given[1]) = MaxSeriesLen
  /\ TimesOf(given[1]) = TimesOf(given[2])
  /\ TimeOrdered(given[1])
  /\ \E i, j \in 1..(Len(given[1]) - 1) :
       /\ given[1][i + 1].t - given[1][i].t \in 1..TOLERANCE
       /\ given[1][j + 1].t - given[1][j].t > TOLERANCE
  /\ ret.prices1 = [k \in 1..MaxSeriesLen |-> given[1][k].p]

\* ---- helpers for C23
\* the number of kept results that come before the i-th one: those with a
\* larger sort key, and those with the same key earlier in the candidate list
RankOf(i) ==
  Cardinality({j \in 1..Len(KeptResults) :
                 \/ SortKey(KeptResults[j]) > SortKey(KeptResults[i])
                 \/ /\ SortKey(KeptResults[j]) = SortKey(KeptResults[i])
                    /\ j < i})
\* the market ids of the kept results of rank below the cap, by rank
TopIds ==
  [k \in 1..Min2(getMaxNodesForLayer(currentLayer + 1), Len(KeptResults)) |->
     KeptResults[CHOOSE i \in 1..Len(KeptResults) : RankOf(i) = k - 1].marketId]
\* a list of ids without the repetitions of an id
FirstOccurrences(ids) ==
  LET firsts == {k \in 1..Len(ids) : \A l \in 1..(k - 1) : ids[l] # ids[k]}
      pos(k) == Cardinality({l \in firsts : l <= k})
  IN  [n \in 1..Cardinality(firsts) |->
         ids[CHOOSE k \in firsts : pos(k) = n]]

\* C23: the nodes a frontier market adds, and their order, are fixed by the
\* candidate list and the price data: they are the kept results ranked by
\* sort key, ties by position in the candidate list, cut at the layer's
\* cap, each market once.
C23_AdmissionDeterministic ==
  [][(pc = "validate" /\ pc' = "loop") =>
       /\ Len(nodes') >= Len(nodes)
       /\ \A i \in 1..Len(nodes) :
            nodes[i] =
              [nodes'[i] EXCEPT !.outgoingLinks = nodes[i].outgoingLinks]
       /\ [k \in 1..(Len(nodes') - Len(nodes)) |-> nodes'[Len(nodes) + k].id]
            = FirstOccurrences(TopIds)]_vars

\* C23 witness: four relationships of a layer-1 list passed validation, two
\* pairs of them with equal sort keys; the cap of three admitted the tied
\* pair in list order and one market of the other pair.
C23_Witness ==
  /\ pc = "loop"
  /\ currentLayer = 0
  /\ ri = 4
  /\ nGate = 4
  /\ Len(nodes) = 4
  /\ nodes[2].id < nodes[3].id
  /\ edges[1].historicalCorrelation.correlation
       = edges[2].historicalCorrelation.correlation
  /\ edges[3].historicalCorrelation.correlation
       # edges[2].historicalCorrelation.correlation

\* C24: a market id in the processed set stays in it, is not in the pool
\* offered to the generator, is not validated again, gets no second node
\* and is not enqueued again; every market is enqueued at most once and
\* expanded at most once.
C24_ProcessedOnce ==
  [][/\ processedMarkets \subseteq processedMarkets'
     \* the pool offered when a market is expanded
     /\ pc' = "validate" => OfferedPool(processedMarkets') \cap processedMarkets' = {}
     \* a validation that keeps a result is for a market not processed
     /\ Len(validatedResults') > Len(validatedResults) =>
          validatedResults'[Len(validatedResults')].marketId
            \notin processedMarkets
     \* new nodes are for markets not processed, one node per market
     /\ \A i \in (Len(nodes) + 1)..Len(nodes') :
          /\ nodes'[i].id \notin processedMarkets
          /\ \A j \in 1..(i - 1) : nodes'[j].id # nodes'[i].id
     \* a market is put on the queue once
     /\ \A i \in 1..Len(marketsToProcess') :
          /\ marketsToProcess'[i].market \notin expanded'
          /\ \A j \in 1..(i - 1) :
               marketsToProcess'[j].market # marketsToProcess'[i].market
     /\ (Len(marketsToProcess') > Len(marketsToProcess) /\ pc = "validate") =>
          \A i \in (Len(marketsToProcess) + 1)..Len(marketsToProcess') :
            marketsToProcess'[i].market \notin processedMarkets
     \* a market is expanded once
     /\ (pc = "loop" /\ pc' = "validate") => currentMarket' \notin expanded
    ]_vars

\* C24 witness: the trigger and two layer-1 markets were expanded; every
\* relationship of the last list named a market that had a node already
\* (only the trigger and the two markets were ever named) and was skipped.
C24_Witness ==
  /\ pc = "done"
  /\ Cardinality(expanded) = 3
  /\ currentLayer = 1
  /\ ri >= 2
  /\ named = 2
  /\ firstUnknown = 0
  /\ Len(nodes) = 3
  /\ processedMarkets = {0, 1, 2}

\* ---- helpers for C25
\* the markets put on the queue so far: those still on it and those shifted
\* off it
EnqueuedSoFar ==
  expanded \cup {marketsToProcess[i].market : i \in 1..Len(marketsToProcess)}
\* node i has an incoming edge of strength above 0.5 (strength in twentieths)
HasStrongIncoming(i) ==
  \E k \in 1..Len(edges) :
    edges[k].targetMarketId = nodes[i].id /\ edges[k].strength > 10

\* C25: a non-trigger node is on the queue, or was expanded, only if its
\* incoming edge has strength > 0.5 and its layer is below maxDepth; every
\* non-trigger node with an outgoing edge has an incoming edge of strength
\* > 0.5.
C25_EnqueuedOnlyIfStrong ==
  Built =>
    /\ \A i \in 1..Len(nodes) :
         (nodes[i].id # TriggerId /\ nodes[i].id \in EnqueuedSoFar) =>
           /\ HasStrongIncoming(i)
           /\ nodes[i].layer < maxDepth
    /\ \A i \in 1..Len(marketsToProcess) :
         \E j \in 1..Len(nodes) :
           /\ nodes[j].id = marketsToProcess[i].market
           /\ nodes[j].layer = marketsToProcess[i].layer
    /\ \A i \in 1..Len(nodes) :
         (nodes[i].id # TriggerId /\ EdgesFrom(nodes[i].id) # {}) =>
           HasStrongIncoming(i)

\* C25 witness: of two layer-1 nodes below maxDepth the one with a strong
\* incoming edge was expanded and has a child, the one with a weak incoming
\* edge was never enqueued; the child, at layer maxDepth, was not enqueued
\* either.
C25_Witness ==
  /\ pc = "done"
  /\ \E i, j, k \in 2..Len(nodes) :
       /\ nodes[i].layer = 1
       /\ HasStrongIncoming(i)
       /\ nodes[i].id \in expanded
       /\ nodes[j].layer = 1
       /\ nodes[j].layer < maxDepth
       /\ ~HasStrongIncoming(j)
       /\ nodes[j].id \notin EnqueuedSoFar
       /\ \E e \in EdgesFrom(nodes[i].id) :
            edges[e].targetMarketId = nodes[k].id
       /\ HasStrongIncoming(k)
       /\ nodes[k].layer = maxDepth
       /\ nodes[k].id \notin EnqueuedSoFar

\* C26: with every external call returning, a run that passed the outcome
\* check reaches DONE; a frontier market whose list leaves no kept result
\* adds no node, edge or queue entry, and when the run is done no market
\* with a layer the loop lets through is left on the queue unexpanded.
C26_BuilderTerminates ==
  /\ (pc = "start" /\ outcomeOk) ~> (pc = "done")
  /\ [](pc = "done" =>
         \A i \in 1..Len(marketsToProcess) :
           marketsToProcess[i].layer >= MAX_DEPTH)
  /\ [][(pc = "validate" /\ pc' = "loop" /\ KeptResults = << >>) =>
          /\ nodes' = nodes
          /\ edges' = edges
          /\ processedMarkets' = processedMarkets
          /\ marketsToProcess' = marketsToProcess]_vars

\* C26 witness: a finished run in which an expanded market got no child and
\* a market enqueued after it was expanded and got one.
C26_Witness ==
  /\ pc = "done"
  /\ metadata.present
  /\ \E i, j \in 2..Len(nodes) :
       /\ i < j
       /\ nodes[i].id \in expanded
       /\ EdgesFrom(nodes[i].id) = {}
       /\ nodes[j].id \in expanded
       /\ EdgesFrom(nodes[j].id) # {}

\* C27: the returned graph is a tree rooted at the trigger: every
\* non-trigger node has exactly one incoming edge, from a node one layer
\* above it, the trigger has none, there is one edge less than there are
\* nodes, no directed cycle, and detectFeedbackLoops returns no loop on it.
C27_ReturnedGraphIsTree ==
  Built =>
    /\ Len(edges) = Len(nodes) - 1
    /\ \A i \in 1..Len(nodes) :
         LET incoming == {k \in 1..Len(edges) :
                            edges[k].targetMarketId = nodes[i].id}
         IN  IF nodes[i].id = TriggerId
               THEN incoming = {} /\ nodes[i].layer = 0
               ELSE /\ Cardinality(incoming) = 1
                    /\ \A k \in incoming :
                         \E j \in 1..Len(nodes) :
                           /\ nodes[j].id = edges[k].sourceMarketId
                           /\ nodes[j].layer = nodes[i].layer - 1
    /\ pc = "done" =>
         /\ ~HasCycle
         /\ detectFeedbackLoops(nodes, edges) = << >>

\* C27 witness: a returned graph of three layers below the trigger with a
\* node that has two children, searched for loops without result.
C27_Witness ==
  /\ pc = "done"
  /\ NodesAtLayer(3) # {}
  /\ \E i \in 1..Len(nodes) : Cardinality(EdgesFrom(nodes[i].id)) >= 2
  /\ Len(nodes) >= 5
  /\ detectFeedbackLoops(nodes, edges) = << >>

\* ---- helpers for the claims about forward graphs
\* every edge between two nodes goes from a lower to a strictly higher layer
ForwardGraph ==
  \A k \in 1..Len(edges) : \A i, j \in 1..Len(nodes) :
    (nodes[i].id = edges[k].sourceMarketId
       /\ nodes[j].id = edges[k].targetMarketId)
      => nodes[i].layer < nodes[j].layer
\* the node objects when the layer loop reaches layer L
BeforeLayer(L) ==
  PropagateLayers(given, edges, SortedOrder(given, Len(given)), 1, L - 1)

\* C28: propagateProbabilities visits the layers in ascending order: when
\* the loop reaches layer L every node of a lower layer already has its
\* final fields; and on a graph whose edges all go from a lower to a higher
\* layer each recomputed node has predicted = clamp(current + weighted
\* average of the shocks its parents have AFTER the pass), up to two units
\* of 1/PScale of rounding.
C28_AscendingLayers ==
  pc = "propagated" =>
    /\ \A L \in 1..(MaxLayer(given, 1) + 1) :
         \A j \in 1..Len(given) :
           given[j].layer < L => BeforeLayer(L)[j] = nodes[j]
    /\ ForwardGraph =>
         \A i \in 1..Len(given) :
           (given[i].layer >= 1 /\ LiveIncomingOf(i) # {}) =>
             LET W(level) == CASE level = "HIGH" -> 10
                               [] level = "MEDIUM" -> 7
                               [] OTHER -> 4
                 Src(k) == CHOOSE j \in SourcesOf(k) : TRUE
                 Term == [k \in LiveIncomingOf(i) |->
                            W(edges[k].confidenceLevel)
                              * (nodes[Src(k)].predictedProbability
                                   - nodes[Src(k)].currentProbability)
                              * edges[k].strength
                              * (IF edges[k].direction = "increase"
                                   THEN 1 ELSE -1)]
                 Weight == [k \in LiveIncomingOf(i) |->
                              W(edges[k].confidenceLevel)]
                 num == SumOver(LiveIncomingOf(i), Term, 0)
                 den == 20 * SumOver(LiveIncomingOf(i), Weight, 0)
                 cur == given[i].currentProbability
                 low == Max2(ClampLo, Min2(ClampHi, cur + (num \div den) - 1))
                 high == Max2(ClampLo, Min2(ClampHi, cur + (num \div den) + 2))
             IN  /\ nodes[i].predictedProbability >= low
                 /\ nodes[i].predictedProbability <= high

\* C28 witness: a forward graph in which a layer-2 node has a layer-1 parent
\* whose predicted probability the pass changed, and the node's own new
\* value lies strictly inside the clamp range.
C28_Witness ==
  /\ pc = "propagated"
  /\ ForwardGraph
  /\ \E i, j \in 1..Len(given) :
       /\ given[i].layer = 2
       /\ given[j].layer = 1
       /\ \E k \in LiveIncomingOf(i) : SourcesOf(k) = {j}
       /\ Cardinality(LiveIncomingOf(i)) = 1
       /\ nodes[j].predictedProbability # given[j].predictedProbability
       /\ nodes[i].predictedProbability # given[i].predictedProbability
       /\ nodes[i].predictedProbability > ClampLo
       /\ nodes[i].predictedProbability < ClampHi

\* C29: on a graph whose edges all go from a lower to a strictly higher
\* layer a second run of propagateProbabilities on the result of the first
\* (same edges) changes no node's predictedProbability, probabilityChange,
\* percentChange or impactLevel.
C29_PropagationIdempotent ==
  (pc = "repropagated" /\ ForwardGraph) =>
    /\ Len(nodes) = Len(given)
    /\ \A i \in 1..Len(given) :
         /\ nodes[i].predictedProbability = given[i].predictedProbability
         /\ nodes[i].probabilityChange = given[i].probabilityChange
         /\ nodes[i].percentChange = given[i].percentChange
         /\ nodes[i].impactLevel = given[i].impactLevel

\* C29 witness: the second run has recomputed, to the same values, a layer-2
\* node of a forward graph whose layer-1 parent was recomputed too, both
\* with a predicted probability that differs from the current one and lies
\* strictly inside the clamp range.
C29_Witness ==
  /\ pc = "repropagated"
  /\ ForwardGraph
  /\ nodes = given
  /\ \E i, j \in 1..Len(given) :
       /\ given[i].layer = 2
       /\ given[j].layer = 1
       /\ \E k \in LiveIncomingOf(i) : SourcesOf(k) = {j}
       /\ LiveIncomingOf(j) # {}
       /\ \A h \in {i, j} :
            /\ nodes[h].predictedProbability # nodes[h].currentProbability
            /\ nodes[h].predictedProbability > ClampLo
            /\ nodes[h].predictedProbability < ClampHi

\* C30 (as claimed): on every edge of the returned graph that embeds a
\* correlation result the recorded sample size equals the number of aligned
\* price points the coefficient was computed over, and is at least 10.
C30_SampleSizeIsAlignedCount ==
  pc = "done" =>
    \A k \in 1..Len(edges) :
      edges[k].historicalCorrelation.present =>
        /\ edges[k].historicalCorrelation.sampleSize = edges[k].alignedPoints
        /\ edges[k].historicalCorrelation.sampleSize >= MinPoints

====
